---- MODULE Spec2Model ----
(***************************************************************************)
(* The PDF annotation subsystem of the time-tracker template editor        *)
(* (TimeTrackerEditor.tsx): the click-to-annotation mapper, the annotation *)
(* edit dialog, the attachment upload and the export pipeline that burns   *)
(* the annotations into a copy of the attached PDF.                        *)
(*                                                                         *)
(* Numbers: JavaScript numbers are modelled as exact rationals <<n, d>>    *)
(* in lowest terms (d > 0); IEEE-754 rounding is not modelled.  Every      *)
(* await of an async handler is a separate step, so that other handlers    *)
(* interleave exactly where the event loop lets them.                      *)
(***************************************************************************)
EXTENDS Integers, Sequences, FiniteSets, TLC

(***************************************************************************)
(* Bounds of the model.                                                    *)
(***************************************************************************)
\* uuidv4() values drawn by clicks and drops in one run of Spec
MaxUuid == 2
\* calls of exportPdfWithAnnotations in one run of Spec
MaxExports == 2
\* uuidv4() values drawn by clicks and drops in one run of SpecEdit
MaxEditUuid == 3
\* uuidv4() values drawn by clicks and drops in one run of SpecTemplate
MaxTemplateUuid == 2
\* saveTemplate and loadTemplate calls in one run of SpecTemplate
MaxCalls == 3
\* the templateId props an editor is mounted with in SpecTemplate
MaxTemplateId == 1
\* annotations of a kind, added or being read, in one run of SpecPdfEditor
MaxPdfAnnotations == 2
\* milliseconds that pass in one run of SpecPdfEditor
MaxNow == 2
\* uuids drawn in runs of SpecDialog
MaxDialogUuid == 3
\* uuids drawn and exports requested in runs of SpecOrder
MaxOrderUuid == 3
MaxOrderExports == 1
\* uuids drawn and template calls made in runs of SpecUpload
MaxUploadUuid == 3
MaxUploadCalls == 2

(***************************************************************************)
(* Rationals.                                                              *)
(***************************************************************************)
Abs(n) == IF n < 0 THEN -n ELSE n

RECURSIVE GCD(_, _)
GCD(a, b) == IF b = 0 THEN a ELSE GCD(b, a % b)

\* n / d in lowest terms, d > 0
Rat(n, d) == LET g == GCD(Abs(n), d) IN <<n \div g, d \div g>>

RatInt(n) == <<n, 1>>

RatMul(a, b) == Rat(a[1] * b[1], a[2] * b[2])

RatSub(a, b) == Rat(a[1] * b[2] - b[1] * a[2], a[2] * b[2])

\* the value left unclamped
Unclamped(r) == r

\* Math.max(0, Math.min(1, r))
Clamp01(r) == IF r[1] < 0 THEN RatInt(0) ELSE IF r[1] > r[2] THEN RatInt(1) ELSE r

(***************************************************************************)
(* The environment: files the user can drop, and what pdf-lib makes of     *)
(* their bytes.                                                            *)
(***************************************************************************)
Null == [null |-> TRUE]

\* the signed-in user: the editor is mounted under ProtectedRoute only
user == [id |-> "u1"]

\* files offered to the drop zone, by name
Files == {"two.pdf", "empty.pdf", "notes.docx"}

\* file.type
FileType(f) ==
  CASE f = "two.pdf" -> "application/pdf"
    [] f = "empty.pdf" -> "application/pdf"
    [] f = "notes.docx" -> "application/vnd.openxmlformats-officedocument.wordprocessingml.document"

\* PDFDocument.load succeeds on these bytes
ParsesAsPdf(f) == f \in {"two.pdf", "empty.pdf"}

\* the page sizes <<width, height>> of the parsed document, in page order
FilePages(f) ==
  CASE f = "two.pdf" -> << <<612, 792>>, <<595, 842>> >>
    [] f = "empty.pdf" -> << >>
    [] OTHER -> << >>

\* texts typed into the dialog's text field; the last one has a character
\* Helvetica's WinAnsi encoding cannot encode
Texts == {"Draft", "", "<non-WinAnsi>"}

\* the texts typed in runs of Spec
ExportTexts == {"Draft", "<non-WinAnsi>"}

\* helv.widthOfTextAtSize / page.drawText accept the text
WinAnsiEncodable(text) == text /= "<non-WinAnsi>"

\* bounding boxes of the PDF container (getBoundingClientRect)
Rects == {[left |-> 0, top |-> 0, width |-> 800, height |-> 1200],
          [left |-> 20, top |-> 100, width |-> 600, height |-> 400]}

\* pointer positions (clientX, clientY), inside and outside the container
Clicks == {[clientX |-> 400, clientY |-> 900], [clientX |-> 400, clientY |-> 120],
           [clientX |-> 0, clientY |-> 0], [clientX |-> 620, clientY |-> 500],
           [clientX |-> -10, clientY |-> 1300], [clientX |-> 810, clientY |-> -5]}

\* the container and the pointer positions in runs of Spec
ExportRects == {[left |-> 0, top |-> 0, width |-> 800, height |-> 1200]}

ExportClicks == {[clientX |-> 400, clientY |-> 120]}

(***************************************************************************)
(* State of the component and of the services it talks to.                 *)
(***************************************************************************)
VARIABLES
  loading,            \* useState(false): the busy flag
  template,           \* useState(defaultTemplate): attachment, headerImage
  annotations,        \* useState([]): the annotation list
  showAnnotModal,     \* useState(false)
  editingAnnotation,  \* useState(null)
  uuid,               \* number of uuidv4() values drawn so far
  storage,            \* the "file-bank" bucket: set of [path, file]
  file_bank,          \* the file_bank table: set of storage paths recorded
  drops,              \* onDropFile calls in flight
  exports,            \* exportPdfWithAnnotations calls, in call order
  lastClick,          \* history: the latest pointer event onPdfClick handled
  templateId,         \* the templateId prop of the mounted editor, 0 when it has none
  templates,          \* the templates table: its rows, the row id the index
  calls,              \* saveTemplate and loadTemplate calls, in call order
  canvas,             \* PdfEditor: canvasRef.current, with its size once rendered
  textAnnotations,    \* PdfEditor: useState([])
  imageAnnotations,   \* PdfEditor: useState([])
  newText,            \* PdfEditor: useState("")
  readers,            \* PdfEditor: FileReaders that have not fired onload
  now                 \* the clock Date.now() reads, in milliseconds

\* the template prop, the templates table and the calls that read and write it
templateVars == <<templateId, templates, calls>>

\* the state of the PdfEditor component
pdfEditorVars == <<canvas, textAnnotations, imageAnnotations, newText, readers, now>>

\* the state of the TimeTrackerEditor component and of the file bank
editorVars == <<loading, template, annotations, showAnnotModal, editingAnnotation,
                uuid, storage, file_bank, drops, exports, lastClick>>

vars == <<editorVars, templateVars, pdfEditorVars>>

\* const [pdfNumPages] = useState<number>(0): the state has no setter
pdfNumPages == 0

\* supabase.storage.from(folder).getPublicUrl(storagePath)
getPublicUrl(storagePath) == [bucket |-> "file-bank", path |-> storagePath]

\* supabase.storage.from(folder).upload(path, file, { upsert: true }): the
\* object at the path is created, or replaced when there is one
Upload(bucket, path, file) ==
  {o \in bucket : o.path /= path} \cup {[path |-> path, file |-> file]}

\* the bytes served at a public url
Fetch(url) == (CHOOSE o \in storage : o.path = url.path).file

\* the container div is rendered when template.attachment?.type === "pdf"
ContainerMounted ==
  /\ template.attachment /= Null
  /\ template.attachment.type = "pdf"

\* the page count of the document the container shows
DocumentPageCount == Len(FilePages(Fetch(template.attachment.url)))

(***************************************************************************)
(* Pointer-to-annotation mapper.                                           *)
(***************************************************************************)
\* Math.max(1, pdfNumPages)
PageCount(numPages) == IF numPages > 1 THEN numPages ELSE 1

\* lines 240-258 of onPdfClick: the position of a pointer event
MapClick(rect, e, numPages) ==
  LET offsetY == e.clientY - rect.top
      offsetX == e.clientX - rect.left
      pageCount == PageCount(numPages)
      \* Math.floor(offsetY / (rect.height / pageCount))
      floored == (offsetY * pageCount) \div rect.height
      pageIndex == IF floored < 0 THEN 0
                   ELSE IF floored >= pageCount THEN pageCount - 1
                   ELSE floored
      \* pageTop = pageIndex * pageHeightPx
      xPct == Rat(offsetX, rect.width)
      yPct == Rat(offsetY * pageCount - pageIndex * rect.height, rect.height)
  IN [pageIndex |-> pageIndex, xPct |-> Clamp01(xPct), yPct |-> Clamp01(yPct)]

\* a handler that maps the pointer event whatever the editor shows
onPdfClickAlways(rect, e) ==
  /\ LET pos == MapClick(rect, e, pdfNumPages)
         newAnnot == [id |-> uuid + 1, pageIndex |-> pos.pageIndex,
                      xPct |-> pos.xPct, yPct |-> pos.yPct,
                      text |-> "Edit me", fontSize |-> 12]
     IN /\ uuid' = uuid + 1
        /\ annotations' = Append(annotations, newAnnot)
        /\ editingAnnotation' = newAnnot
        /\ showAnnotModal' = TRUE
        /\ lastClick' = [rect |-> rect, e |-> e, docPages |-> 0, id |-> newAnnot.id]
  /\ UNCHANGED <<loading, template, storage, file_bank, drops, exports,
                 templateVars, pdfEditorVars>>

\* a handler that puts the new annotation first and opens no dialog
onPdfClickQuiet(rect, e) ==
  /\ ContainerMounted
  /\ LET pos == MapClick(rect, e, pdfNumPages)
         newAnnot == [id |-> uuid + 1, pageIndex |-> pos.pageIndex,
                      xPct |-> pos.xPct, yPct |-> pos.yPct,
                      text |-> "Edit me", fontSize |-> 12]
     IN /\ uuid' = uuid + 1
        /\ annotations' = <<newAnnot>> \o annotations
        /\ lastClick' = [rect |-> rect, e |-> e, docPages |-> DocumentPageCount,
                         id |-> newAnnot.id]
  /\ UNCHANGED <<loading, template, storage, file_bank, drops, exports,
                 showAnnotModal, editingAnnotation, templateVars, pdfEditorVars>>

\* what lastClick records of a call that returned at its first line, before
\* it read the event or a bounding box: that there was one, with id 0
ReturnedAtOnce ==
  [rect |-> [left |-> 0, top |-> 0, width |-> 0, height |-> 0],
   e |-> [clientX |-> 0, clientY |-> 0], docPages |-> 0, id |-> 0]

\* the handler called with a pointer event; lastClick is a history variable
onPdfClick(rect, e) ==
  /\ IF ~ContainerMounted \/ template.attachment = Null
     THEN /\ lastClick' = ReturnedAtOnce
          /\ UNCHANGED <<uuid, annotations, editingAnnotation, showAnnotModal>>
     ELSE LET pos == MapClick(rect, e, pdfNumPages)
              newAnnot == [id |-> uuid + 1,
                           pageIndex |-> pos.pageIndex,
                           xPct |-> pos.xPct,
                           yPct |-> pos.yPct,
                           text |-> "Edit me",
                           fontSize |-> 12]
          IN /\ uuid' = uuid + 1
             /\ annotations' = Append(annotations, newAnnot)
             /\ editingAnnotation' = newAnnot
             /\ showAnnotModal' = TRUE
             /\ lastClick' = [rect |-> rect, e |-> e, docPages |-> DocumentPageCount,
                              id |-> newAnnot.id]
  /\ UNCHANGED <<loading, template, storage, file_bank, drops, exports,
                 templateVars, pdfEditorVars>>

(***************************************************************************)
(* The annotation dialog.                                                  *)
(***************************************************************************)
\* a map that puts the edited annotation in every place
MapToUpdated(prev, updated) == [i \in DOMAIN prev |-> updated]

\* a map that keeps the previous version behind the edited one
RECURSIVE MapKeepingPrevious(_, _)
MapKeepingPrevious(prev, updated) ==
  IF prev = << >> THEN << >>
  ELSE (IF Head(prev).id = updated.id THEN <<updated, Head(prev)>> ELSE <<Head(prev)>>)
         \o MapKeepingPrevious(Tail(prev), updated)

\* prev.map(a => (a.id === updated.id ? updated : a))
MapUpdated(prev, updated) ==
  [i \in DOMAIN prev |-> IF prev[i].id = updated.id THEN updated ELSE prev[i]]

\* a filter that lets nothing through
FilterNone(prev, id) == << >>

\* prev.filter(a => a.id !== id)
FilterId(prev, id) == SelectSeq(prev, LAMBDA a : a.id /= id)

\* a save that puts the edited annotation at the end of the list when no
\* element has its id
saveAnnotationEditOrAppend(updated) ==
  /\ annotations' = IF \E k \in DOMAIN annotations : annotations[k].id = updated.id
                    THEN MapUpdated(annotations, updated)
                    ELSE Append(annotations, updated)
  /\ editingAnnotation' = Null
  /\ showAnnotModal' = FALSE

saveAnnotationEdit(updated) ==
  /\ annotations' = MapUpdated(annotations, updated)
  /\ editingAnnotation' = Null
  /\ showAnnotModal' = FALSE

removeAnnotation(id) ==
  annotations' = FilterId(annotations, id)

\* a text field that writes each keystroke through to the list
ModalChangeTextLive(text) ==
  /\ showAnnotModal
  /\ editingAnnotation /= Null
  /\ editingAnnotation' = [editingAnnotation EXCEPT !.text = text]
  /\ annotations' = MapUpdated(annotations, [editingAnnotation EXCEPT !.text = text])
  /\ UNCHANGED <<loading, template, showAnnotModal, uuid, storage,
                 file_bank, drops, exports, lastClick,
                 templateVars, pdfEditorVars>>

\* onChange of the dialog's text field
ModalChangeText(text) ==
  /\ showAnnotModal
  /\ editingAnnotation /= Null
  /\ editingAnnotation' = [editingAnnotation EXCEPT !.text = text]
  /\ UNCHANGED <<loading, template, annotations, showAnnotModal, uuid, storage,
                 file_bank, drops, exports, lastClick,
                 templateVars, pdfEditorVars>>

\* what the font size number field hands to its onChange (e.target.value of
\* an input of type number: "" while the entry is no number), as the sequence
\* of its characters
NumberValues ==
  { << >>, <<"0">>, <<"5">>, <<"6">>, <<"5", "0">>, <<"9", "6">>, <<"9", "7">>,
    <<"-", "3">>, <<"1", "2", ".", "5">>, <<"1", "e", "2">> }

\* the value attributes of the options of the font size select
OptionValues ==
  { <<"6">>, <<"7">>, <<"8">>, <<"9">>, <<"1", "0">>, <<"1", "1">>, <<"1", "2">>,
    <<"1", "4">>, <<"1", "6">>, <<"1", "8">>, <<"2", "0">>, <<"2", "2">>, <<"2", "4">>,
    <<"2", "6">>, <<"2", "8">>, <<"3", "6">>, <<"4", "8">>, <<"7", "2">> }

DigitChars == {"0", "1", "2", "3", "4", "5", "6", "7", "8", "9"}

Digit(c) ==
  CASE c = "0" -> 0 [] c = "1" -> 1 [] c = "2" -> 2 [] c = "3" -> 3 [] c = "4" -> 4
    [] c = "5" -> 5 [] c = "6" -> 6 [] c = "7" -> 7 [] c = "8" -> 8 [] c = "9" -> 9

\* the value of the longest prefix of digits
RECURSIVE ParseDigits(_, _)
ParseDigits(chars, acc) ==
  IF chars = << >> \/ Head(chars) \notin DigitChars THEN acc
  ELSE ParseDigits(Tail(chars), acc * 10 + Digit(Head(chars)))

\* parseInt(string): an optional sign, then digits up to the first character
\* that is none; NaN when there is no digit
parseInt(chars) ==
  LET signed == chars /= << >> /\ Head(chars) \in {"-", "+"}
      body == IF signed THEN Tail(chars) ELSE chars
  IN IF body = << >> \/ Head(body) \notin DigitChars
     THEN [nan |-> TRUE, value |-> 0]
     ELSE [nan |-> FALSE,
           value |-> IF signed /\ Head(chars) = "-"
                     THEN 0 - ParseDigits(body, 0) ELSE ParseDigits(body, 0)]

\* n || fallback: NaN and 0 are falsy
OrElse(n, fallback) == IF n.nan \/ n.value = 0 THEN fallback ELSE n.value

Min(a, b) == IF a < b THEN a ELSE b

Max(a, b) == IF a > b THEN a ELSE b

\* a number field that stores what parseInt returns
NumberFieldUnclamped(chars) == OrElse(parseInt(chars), 12)

\* Math.max(6, Math.min(96, parseInt(e.target.value) || 12))
NumberFieldFontSize(chars) == Max(6, Min(96, OrElse(parseInt(chars), 12)))

\* parseInt(e.target.value) of the selected option; every option is a numeral
SelectFontSize(chars) == parseInt(chars).value

\* onChange of the font size number field
ModalChangeFontSizeNumber(chars) ==
  /\ showAnnotModal
  /\ editingAnnotation /= Null
  /\ editingAnnotation' = [editingAnnotation EXCEPT !.fontSize = NumberFieldFontSize(chars)]
  /\ UNCHANGED <<loading, template, annotations, showAnnotModal, uuid, storage,
                 file_bank, drops, exports, lastClick,
                 templateVars, pdfEditorVars>>

\* onChange of the font size select
ModalChangeFontSizeSelect(chars) ==
  /\ showAnnotModal
  /\ editingAnnotation /= Null
  /\ editingAnnotation' = [editingAnnotation EXCEPT !.fontSize = SelectFontSize(chars)]
  /\ UNCHANGED <<loading, template, annotations, showAnnotModal, uuid, storage,
                 file_bank, drops, exports, lastClick,
                 templateVars, pdfEditorVars>>

\* Cancel button, close button and onHide
ModalCancel ==
  /\ showAnnotModal
  /\ showAnnotModal' = FALSE
  /\ UNCHANGED <<loading, template, annotations, editingAnnotation, uuid, storage,
                 file_bank, drops, exports, lastClick,
                 templateVars, pdfEditorVars>>

\* Delete button
ModalDelete ==
  /\ showAnnotModal
  /\ IF editingAnnotation /= Null
     THEN removeAnnotation(editingAnnotation.id)
     ELSE UNCHANGED annotations
  /\ UNCHANGED <<loading, template, showAnnotModal, editingAnnotation, uuid, storage,
                 file_bank, drops, exports, lastClick,
                 templateVars, pdfEditorVars>>

\* a Save button that also writes the template to the templates table
ModalSaveAndPersist ==
  /\ showAnnotModal
  /\ editingAnnotation /= Null
  /\ saveAnnotationEdit(editingAnnotation)
  /\ templates' = Append(templates, [name |-> "My Time Tracker", template_data |-> template,
                                      user_id |-> "u1"])
  /\ UNCHANGED <<loading, template, uuid, storage, file_bank, drops, exports, lastClick,
                 templateId, calls, pdfEditorVars>>

\* Save button
ModalSave ==
  /\ showAnnotModal
  /\ IF editingAnnotation /= Null
     THEN saveAnnotationEdit(editingAnnotation)
     ELSE UNCHANGED <<annotations, editingAnnotation, showAnnotModal>>
  /\ UNCHANGED <<loading, template, uuid, storage, file_bank, drops, exports, lastClick,
                 templateVars, pdfEditorVars>>

(***************************************************************************)
(* Upload helper and the attachment drop zone.                             *)
(***************************************************************************)
\* the attachment kind onDropFile derives from file.type (the drop zone
\* accepts files by these MIME types, so the name's extension adds nothing)
AttachmentType(f) ==
  CASE FileType(f) = "application/pdf" -> "pdf"
    [] FileType(f) = "application/vnd.openxmlformats-officedocument.wordprocessingml.document" -> "word"
    [] FileType(f) = "application/vnd.openxmlformats-officedocument.spreadsheetml.sheet" -> "excel"
    [] OTHER -> "unsupported"

\* onDropFile up to the first await, in uploadFile: storage upload requested
DropStart(file) ==
  /\ IF AttachmentType(file) = "unsupported"
     THEN /\ loading' = FALSE
          /\ UNCHANGED <<uuid, drops>>
     ELSE /\ loading' = TRUE
          /\ uuid' = uuid + 1
          /\ drops' = drops \cup {[storagePath |-> [uuid |-> uuid + 1, name |-> file],
                                    file |-> file,
                                    type |-> AttachmentType(file),
                                    target |-> "attachment",
                                    pc |-> "upload"]}
  /\ UNCHANGED <<template, annotations, showAnnotModal, editingAnnotation, storage,
                 file_bank, exports, lastClick,
                 templateVars, pdfEditorVars>>

\* the image files dropped on the header image zone (accept image/*)
HeaderImages == {"header.png"}

\* onDropHeaderImage up to the first await, in uploadFile
HeaderDropStart(file) ==
  /\ loading' = TRUE
  /\ uuid' = uuid + 1
  /\ drops' = drops \cup {[storagePath |-> [uuid |-> uuid + 1, name |-> file],
                            file |-> file,
                            type |-> "image",
                            target |-> "headerImage",
                            pc |-> "upload"]}
  /\ UNCHANGED <<template, annotations, showAnnotModal, editingAnnotation, storage,
                 file_bank, exports, lastClick,
                 templateVars, pdfEditorVars>>

\* an uploadFile that goes on to the metadata insert whatever the upload returned
DropUploadedIgnoringError(d, ok) ==
  /\ d \in drops
  /\ d.pc = "upload"
  /\ storage' = IF ok THEN Upload(storage, d.storagePath, d.file) ELSE storage
  /\ drops' = (drops \ {d}) \cup {[d EXCEPT !.pc = "insert"]}
  /\ UNCHANGED <<loading, template, annotations, showAnnotModal, editingAnnotation, uuid,
                 file_bank, exports, lastClick,
                 templateVars, pdfEditorVars>>

\* uploadFile resumes after the storage upload: uploadError or the metadata insert
DropUploaded(d, ok) ==
  /\ d \in drops
  /\ d.pc = "upload"
  /\ IF ok
     THEN /\ storage' = Upload(storage, d.storagePath, d.file)
          /\ drops' = (drops \ {d}) \cup {[d EXCEPT !.pc = "insert"]}
          /\ UNCHANGED loading
     ELSE /\ drops' = drops \ {d}
          /\ loading' = FALSE
          /\ UNCHANGED storage
  /\ UNCHANGED <<template, annotations, showAnnotModal, editingAnnotation, uuid,
                 file_bank, exports, lastClick,
                 templateVars, pdfEditorVars>>

\* an onDropFile that sets the attachment and leaves the annotation list
DropInsertedKeepingAnnotations(d, ok) ==
  /\ d \in drops
  /\ d.pc = "insert"
  /\ drops' = drops \ {d}
  /\ loading' = FALSE
  /\ IF ok
     THEN /\ file_bank' = file_bank \cup {d.storagePath}
          /\ template' = IF d.target = "attachment"
                         THEN [template EXCEPT !.attachment =
                                 [storagePath |-> d.storagePath,
                                  url |-> getPublicUrl(d.storagePath),
                                  type |-> d.type]]
                         ELSE [template EXCEPT !.headerImage =
                                 [storagePath |-> d.storagePath,
                                  url |-> getPublicUrl(d.storagePath)]]
     ELSE UNCHANGED <<file_bank, template>>
  /\ UNCHANGED <<annotations, showAnnotModal, editingAnnotation, uuid, storage, exports,
                 lastClick, templateVars, pdfEditorVars>>

\* uploadFile resumes after the file_bank insert; onDropFile sets the attachment
\* and empties the annotation list, onDropHeaderImage sets the header image
DropInserted(d, ok) ==
  /\ d \in drops
  /\ d.pc = "insert"
  /\ drops' = drops \ {d}
  /\ loading' = FALSE
  /\ IF ok
     THEN /\ file_bank' = file_bank \cup {d.storagePath}
          /\ IF d.target = "attachment"
             THEN /\ template' = [template EXCEPT !.attachment =
                                    [storagePath |-> d.storagePath,
                                     url |-> getPublicUrl(d.storagePath),
                                     type |-> d.type]]
                  /\ annotations' = << >>
             ELSE /\ template' = [template EXCEPT !.headerImage =
                                    [storagePath |-> d.storagePath,
                                     url |-> getPublicUrl(d.storagePath)]]
                  /\ UNCHANGED annotations
     ELSE UNCHANGED <<file_bank, template, annotations>>
  /\ UNCHANGED <<showAnnotModal, editingAnnotation, uuid, storage, exports, lastClick,
                 templateVars, pdfEditorVars>>

(***************************************************************************)
(* Document compositor: exportPdfWithAnnotations.                          *)
(***************************************************************************)
\* srcPdf.getPageIndices()
getPageIndices(srcPages) == [k \in 1..Len(srcPages) |-> k - 1]

\* a copy that loses the last page
CopyPagesButLast(srcPages, indices) ==
  [k \in 1..(Len(indices) - (IF Len(indices) > 0 THEN 1 ELSE 0)) |-> srcPages[indices[k] + 1]]

\* pdfCopy.copyPages(srcPdf, indices), each copy appended with addPage
copyPages(srcPages, indices) == [k \in 1..Len(indices) |-> srcPages[indices[k] + 1]]

\* the text position without the flip of the y axis
TextPositionTopLeft(a, size) ==
  [x |-> RatMul(a.xPct, RatInt(size[1])),
   y |-> RatMul(a.yPct, RatInt(size[2]))]

\* x = a.xPct * width, y = (1 - a.yPct) * height
TextPosition(a, size) ==
  [x |-> RatMul(a.xPct, RatInt(size[1])),
   y |-> RatMul(RatSub(RatInt(1), a.yPct), RatInt(size[2]))]

\* an iteration that draws the text and then the rectangle over it
DrawAnnotationTextFirst(a, size) ==
  LET pos == TextPosition(a, size)
      padding == 2
  IN << [op |-> "drawText", page |-> a.pageIndex, annotation |-> a.id,
         x |-> pos.x, y |-> pos.y, text |-> a.text, size |-> a.fontSize],
        [op |-> "drawRectangle", page |-> a.pageIndex, annotation |-> a.id,
         x |-> RatSub(pos.x, RatInt(padding)), y |-> RatSub(pos.y, RatInt(padding)),
         widthOfText |-> [text |-> a.text, size |-> a.fontSize, plus |-> 2 * padding],
         height |-> a.fontSize + 2 * padding] >>

\* what one iteration of annotations.forEach draws: the rectangle, then the text
DrawAnnotation(a, size) ==
  LET pos == TextPosition(a, size)
      padding == 2
  IN << [op |-> "drawRectangle", page |-> a.pageIndex, annotation |-> a.id,
         x |-> RatSub(pos.x, RatInt(padding)), y |-> RatSub(pos.y, RatInt(padding)),
         \* width: helv.widthOfTextAtSize(a.text, a.fontSize) + 2 * padding
         widthOfText |-> [text |-> a.text, size |-> a.fontSize, plus |-> 2 * padding],
         height |-> a.fontSize + 2 * padding],
        [op |-> "drawText", page |-> a.pageIndex, annotation |-> a.id,
         x |-> pos.x, y |-> pos.y, text |-> a.text, size |-> a.fontSize] >>

\* pdfCopy.getPage(index) throws outside 0..pageCount-1
HasPage(pages, index) == index >= 0 /\ index < Len(pages)

\* annotations.forEach(...): the draw calls made, or the message of the first
\* exception, which leaves the loop
RECURSIVE DrawAll(_, _, _)
DrawAll(pages, annots, k) ==
  IF k > Len(annots) THEN [thrown |-> "", draws |-> << >>]
  ELSE LET a == annots[k] IN
       IF ~HasPage(pages, a.pageIndex)
       THEN [thrown |-> "index out of range", draws |-> << >>]
       ELSE IF ~WinAnsiEncodable(a.text)
       THEN [thrown |-> "WinAnsi cannot encode", draws |-> << >>]
       ELSE LET rest == DrawAll(pages, annots, k + 1)
            IN [thrown |-> rest.thrown,
                draws |-> DrawAnnotation(a, pages[a.pageIndex + 1]) \o rest.draws]

\* the annotation list as it is when the loop runs
LiveAnnotations(x) == annotations

\* the annotation list the loop iterates: the const of the render whose
\* closure is running
AnnotationsToDraw(x) == x.annotations

\* a failure path that still offers a (blank) document for download
FailedButDownloaded(x, message) ==
  [x EXCEPT !.pc = "done", !.download = [pages |-> << >>, draws |-> << >>],
            !.alert = "Failed to export PDF: " \o message]

\* catch (err) { alert(`Failed to export PDF: ...`) } finally
Failed(x, message) ==
  [x EXCEPT !.pc = "done", !.alert = "Failed to export PDF: " \o message]

\* a call of exportPdfWithAnnotations up to its first await
ExportStart(alsoUpload) ==
  /\ IF template.attachment = Null
     THEN /\ exports' = Append(exports,
                 [pc |-> "rejected", alsoUpload |-> alsoUpload, annotations |-> annotations,
                  url |-> Null, bytes |-> "", listAtDraw |-> Null, out |-> Null,
                  mergedBytes |-> Null,
                  download |-> Null, uploadPath |-> Null, alert |-> "No PDF loaded"])
          /\ UNCHANGED loading
     ELSE /\ exports' = Append(exports,
                 [pc |-> "fetch", alsoUpload |-> alsoUpload, annotations |-> annotations,
                  url |-> template.attachment.url, bytes |-> "", listAtDraw |-> Null,
                  out |-> Null,
                  mergedBytes |-> Null, download |-> Null, uploadPath |-> Null,
                  alert |-> ""])
          /\ loading' = TRUE
  /\ UNCHANGED <<template, annotations, showAnnotModal, editingAnnotation, uuid, storage,
                 file_bank, drops, lastClick,
                 templateVars, pdfEditorVars>>

\* an export step whose setLoading(false) is at the end of the try block
ExportStepWithoutFinally(i, x) ==
  /\ exports' = [exports EXCEPT ![i] = x]
  /\ IF x.pc = "done" /\ x.alert = "" THEN loading' = FALSE ELSE UNCHANGED loading
  /\ UNCHANGED <<template, annotations, showAnnotModal, editingAnnotation, uuid, storage,
                 file_bank, drops, lastClick,
                 templateVars, pdfEditorVars>>

\* an export step that touches only its own record, and the flag when it ends
ExportStep(i, x) ==
  /\ exports' = [exports EXCEPT ![i] = x]
  /\ IF x.pc = "done" THEN loading' = FALSE ELSE UNCHANGED loading
  /\ UNCHANGED <<template, annotations, showAnnotModal, editingAnnotation, uuid, storage,
                 file_bank, drops, lastClick,
                 templateVars, pdfEditorVars>>

\* await fetch(url): a response, ok or not, or a network error
ExportFetched(i, outcome) ==
  /\ i \in DOMAIN exports
  /\ exports[i].pc = "fetch"
  /\ ExportStep(i, CASE outcome = "ok" -> [exports[i] EXCEPT !.pc = "arrayBuffer"]
                      [] outcome = "not ok" -> Failed(exports[i], "Failed to fetch PDF")
                      [] outcome = "error" -> Failed(exports[i], "Failed to fetch"))

\* await res.arrayBuffer()
ExportArrayBuffer(i) ==
  /\ i \in DOMAIN exports
  /\ exports[i].pc = "arrayBuffer"
  /\ ExportStep(i, [exports[i] EXCEPT !.pc = "load", !.bytes = Fetch(exports[i].url)])

\* await PDFDocument.load(arrayBuffer)
ExportLoaded(i) ==
  /\ i \in DOMAIN exports
  /\ exports[i].pc = "load"
  /\ ExportStep(i, IF ParsesAsPdf(exports[i].bytes)
                   THEN [exports[i] EXCEPT !.pc = "create"]
                   ELSE Failed(exports[i], "Failed to parse PDF document"))

\* await PDFDocument.create()
ExportCreated(i) ==
  /\ i \in DOMAIN exports
  /\ exports[i].pc = "create"
  /\ ExportStep(i, [exports[i] EXCEPT !.pc = "copyPages", !.out = [pages |-> << >>, draws |-> << >>]])

\* await pdfCopy.copyPages(...), then addPage for each copy
ExportCopied(i) ==
  /\ i \in DOMAIN exports
  /\ exports[i].pc = "copyPages"
  /\ LET srcPages == FilePages(exports[i].bytes)
     IN ExportStep(i, [exports[i] EXCEPT !.pc = "embedFont",
                         !.out.pages = copyPages(srcPages, getPageIndices(srcPages))])

\* await pdfCopy.embedFont(...), then the annotations.forEach loop up to
\* the call of pdfCopy.save(); listAtDraw is a history field, the state's
\* annotation list when the loop ran
ExportFontEmbedded(i) ==
  /\ i \in DOMAIN exports
  /\ exports[i].pc = "embedFont"
  /\ LET x == [exports[i] EXCEPT !.listAtDraw = [list |-> annotations]]
         drawn == DrawAll(x.out.pages, AnnotationsToDraw(x), 1)
     IN ExportStep(i, IF drawn.thrown = ""
                      THEN [x EXCEPT !.pc = "save", !.out.draws = drawn.draws]
                      ELSE Failed(x, drawn.thrown))

\* a delivery that leaves the download to the upload branch
DownloadUnlessUploading(x) ==
  [x EXCEPT !.download = IF x.alsoUpload THEN Null ELSE x.mergedBytes]

\* lines 318-327: the blob of mergedBytes offered through link.click()
Download(x) == [x EXCEPT !.download = x.mergedBytes]

\* an upload of the edited file to the path of the attachment
AttachmentStoragePath(n) == template.attachment.storagePath

\* `${user.id}/${uuidv4()}-${name}-edited.pdf`: the path of the edited file,
\* n the uuid drawn for it
EditedStoragePath(n) == [uuid |-> n, name |-> "edited.pdf"]

\* await pdfCopy.save(), the download, and the upload request when asked for
ExportSaved(i) ==
  /\ i \in DOMAIN exports
  /\ exports[i].pc = "save"
  /\ LET x == Download([exports[i] EXCEPT !.mergedBytes = exports[i].out])
     IN IF x.alsoUpload /\ user /= Null
        THEN /\ uuid' = uuid + 1
             /\ exports' = [exports EXCEPT ![i] =
                    [x EXCEPT !.pc = "upload",
                              !.uploadPath = EditedStoragePath(uuid + 1)]]
             /\ UNCHANGED loading
        ELSE /\ exports' = [exports EXCEPT ![i] = [x EXCEPT !.pc = "done"]]
             /\ loading' = FALSE
             /\ UNCHANGED uuid
  /\ UNCHANGED <<template, annotations, showAnnotModal, editingAnnotation, storage,
                 file_bank, drops, lastClick,
                 templateVars, pdfEditorVars>>

\* await supabase.storage.from(folder).upload(...): it resolves without an
\* uploadError ("ok"), resolves with one ("error"), or rejects ("throw") and
\* the catch of the export takes over
ExportUploaded(i, outcome) ==
  /\ i \in DOMAIN exports
  /\ exports[i].pc = "upload"
  /\ CASE outcome = "ok" ->
            /\ storage' = Upload(storage, exports[i].uploadPath, "edited.pdf")
            /\ exports' = [exports EXCEPT ![i].pc = "insert"]
            /\ UNCHANGED loading
       [] outcome = "error" ->
            /\ exports' = [exports EXCEPT ![i].pc = "done",
                  ![i].alert = "Edited PDF downloaded but failed to upload edited file."]
            /\ loading' = FALSE
            /\ UNCHANGED storage
       [] outcome = "throw" ->
            /\ exports' = [exports EXCEPT ![i] = Failed(exports[i], "upload rejected")]
            /\ loading' = FALSE
            /\ UNCHANGED storage
  /\ UNCHANGED <<template, annotations, showAnnotModal, editingAnnotation, uuid,
                 file_bank, drops, lastClick,
                 templateVars, pdfEditorVars>>

\* await supabase.from("file_bank").insert(...): its result is not read
ExportInserted(i, ok) ==
  /\ i \in DOMAIN exports
  /\ exports[i].pc = "insert"
  /\ file_bank' = IF ok THEN file_bank \cup {exports[i].uploadPath} ELSE file_bank
  /\ exports' = [exports EXCEPT ![i].pc = "done",
                                ![i].alert = "Edited PDF uploaded to File Bank"]
  /\ loading' = FALSE
  /\ UNCHANGED <<template, annotations, showAnnotModal, editingAnnotation, uuid, storage,
                 drops, lastClick,
                 templateVars, pdfEditorVars>>

(***************************************************************************)
(* Template persistence: saveTemplate, loadTemplate, and the mount of an   *)
(* editor that is given a templateId.                                      *)
(***************************************************************************)
\* useState("My Time Tracker"); the name field is left as it is
name == "My Time Tracker"

\* const defaultTemplate, without the table rows
defaultTemplate == [attachment |-> Null, headerImage |-> Null]

\* const payload = { name, template_data: template, user_id: user.id }
Payload(t) == [name |-> name, template_data |-> t, user_id |-> user.id]

\* a call of saveTemplate up to its await; the Save Template button is
\* disabled while loading. list is a history field: the annotation list of
\* the editor when the call was made
SaveStart ==
  /\ ~loading
  /\ loading' = TRUE
  /\ calls' = Append(calls, [kind |-> "save", pc |-> "await", id |-> templateId,
                             payload |-> Payload(template), row |-> 0,
                             list |-> annotations, listAfter |-> Null, alert |-> ""])
  /\ UNCHANGED <<template, annotations, showAnnotModal, editingAnnotation, uuid, storage,
                 file_bank, drops, exports, lastClick, templateId, templates,
                 pdfEditorVars>>

\* supabase.from("templates").insert(payload) / update(payload).eq("id", id)
\* returns: the row is written unless there is an error; row is the id written
SaveDone(i, ok) ==
  /\ i \in DOMAIN calls
  /\ calls[i].kind = "save" /\ calls[i].pc = "await"
  /\ LET c == calls[i] IN
       IF ~ok
       THEN /\ calls' = [calls EXCEPT ![i].pc = "done",
                                       ![i].alert = "Failed to save template"]
            /\ UNCHANGED templates
       ELSE IF c.id = 0
       THEN /\ templates' = Append(templates, c.payload)
            /\ calls' = [calls EXCEPT ![i].pc = "done", ![i].row = Len(templates) + 1,
                                       ![i].alert = "Template saved"]
       ELSE /\ templates' = IF c.id \in DOMAIN templates
                            THEN [templates EXCEPT ![c.id] = c.payload]
                            ELSE templates
            /\ calls' = [calls EXCEPT ![i].pc = "done",
                                       ![i].row = IF c.id \in DOMAIN templates THEN c.id ELSE 0,
                                       ![i].alert = "Template updated"]
  /\ loading' = FALSE
  /\ UNCHANGED <<template, annotations, showAnnotModal, editingAnnotation, uuid, storage,
                 file_bank, drops, exports, lastClick, templateId, pdfEditorVars>>

\* no handler of the mounted editor is between two of its awaits
Idle ==
  /\ drops = {}
  /\ \A i \in DOMAIN calls : calls[i].pc = "done"
  /\ \A i \in DOMAIN exports : exports[i].pc \in {"done", "rejected"}

\* a TimeTrackerEditor is mounted with a templateId: its state is the
\* useState defaults, and the effect calls loadTemplate, here up to its await
Mount(id) ==
  /\ Idle
  /\ templateId' = id
  /\ template' = defaultTemplate
  /\ annotations' = << >>
  /\ showAnnotModal' = FALSE
  /\ editingAnnotation' = Null
  /\ lastClick' = Null
  /\ loading' = TRUE
  /\ calls' = Append(calls, [kind |-> "load", pc |-> "await", id |-> id,
                             payload |-> Null, row |-> 0,
                             list |-> << >>, listAfter |-> Null, alert |-> ""])
  /\ UNCHANGED <<uuid, storage, file_bank, drops, exports, templates, pdfEditorVars>>

\* supabase.from("templates").select("*").eq("id", id).single() returns;
\* payload is the row read, listAfter a history field: the annotation list
\* of the editor once the call has set its state
LoadDone(i, ok) ==
  /\ i \in DOMAIN calls
  /\ calls[i].kind = "load" /\ calls[i].pc = "await"
  /\ LET c == calls[i] IN
       IF ok /\ c.id \in DOMAIN templates
       THEN /\ template' = templates[c.id].template_data
            /\ calls' = [calls EXCEPT ![i].pc = "done", ![i].payload = templates[c.id],
                                       ![i].listAfter = [list |-> annotations]]
       ELSE /\ calls' = [calls EXCEPT ![i].pc = "done",
                                       ![i].alert = "Failed to load template"]
            /\ UNCHANGED template
  /\ loading' = FALSE
  /\ UNCHANGED <<annotations, showAnnotModal, editingAnnotation, uuid, storage,
                 file_bank, drops, exports, lastClick, templateId, templates,
                 pdfEditorVars>>

(***************************************************************************)
(* The PdfEditor component: text and image annotations with ids read from  *)
(* the clock.                                                              *)
(***************************************************************************)
\* useState(1); page navigation is left out
currentPage == 1

\* what the user types into the "Enter text to add" field
NewTexts == {"", " ", "Note", "Memo"}

\* newText.trim()
Trim(text) == IF text = " " THEN "" ELSE text

\* the image files the user picks
Images == {"logo.png", "stamp.png"}

\* loadPdf and renderPage have run: the canvas is rendered and sized
PdfRendered ==
  /\ canvas = Null
  /\ canvas' = [width |-> 918, height |-> 1188]
  /\ UNCHANGED <<editorVars, templateVars, textAnnotations, imageAnnotations, newText,
                 readers, now>>

\* onChange of the text field
setNewText(text) ==
  /\ canvas /= Null
  /\ newText' = text
  /\ UNCHANGED <<editorVars, templateVars, canvas, textAnnotations, imageAnnotations,
                 readers, now>>

\* Date.now().toString()
DateNow == now

addTextAnnotation ==
  /\ canvas /= Null
  /\ Trim(newText) /= ""
  /\ textAnnotations' = Append(textAnnotations,
         [id |-> DateNow, text |-> newText, x |-> canvas.width \div 2,
          y |-> canvas.height \div 2, page |-> currentPage])
  /\ newText' = ""
  /\ UNCHANGED <<editorVars, templateVars, canvas, imageAnnotations, readers, now>>

\* addImageAnnotation up to reader.readAsDataURL(file)
addImageAnnotation(file) ==
  /\ canvas /= Null
  /\ readers' = Append(readers, file)
  /\ UNCHANGED <<editorVars, templateVars, canvas, textAnnotations, imageAnnotations,
                 newText, now>>

\* reader.onload of the k-th reader
ReaderLoaded(k) ==
  /\ k \in DOMAIN readers
  /\ readers' = [j \in 1..(Len(readers) - 1) |-> IF j < k THEN readers[j] ELSE readers[j + 1]]
  /\ IF canvas = Null
     THEN UNCHANGED imageAnnotations
     ELSE imageAnnotations' = Append(imageAnnotations,
              [id |-> DateNow, url |-> readers[k], x |-> canvas.width \div 2 - 50,
               y |-> canvas.height \div 2 - 50, width |-> 100, height |-> 100,
               page |-> currentPage])
  /\ UNCHANGED <<editorVars, templateVars, canvas, textAnnotations, newText, now>>

\* the Remove button of a listed text annotation
RemoveText(id) ==
  /\ \E k \in DOMAIN textAnnotations : textAnnotations[k].id = id
  /\ textAnnotations' = SelectSeq(textAnnotations, LAMBDA t : t.id /= id)
  /\ UNCHANGED <<editorVars, templateVars, canvas, imageAnnotations, newText, readers, now>>

\* a millisecond passes
Tick ==
  /\ now' = now + 1
  /\ UNCHANGED <<editorVars, templateVars, canvas, textAnnotations, imageAnnotations,
                 newText, readers>>

(***************************************************************************)
(* The specification.                                                      *)
(***************************************************************************)
Init ==
  /\ loading = FALSE
  /\ template = defaultTemplate
  /\ annotations = << >>
  /\ showAnnotModal = FALSE
  /\ editingAnnotation = Null
  /\ uuid = 0
  /\ storage = {}
  /\ file_bank = {}
  /\ drops = {}
  /\ exports = << >>
  /\ lastClick = Null
  /\ templateId = 0
  /\ templates = << >>
  /\ calls = << >>
  /\ canvas = Null
  /\ textAnnotations = << >>
  /\ imageAnnotations = << >>
  /\ newText = ""
  /\ readers = << >>
  /\ now = 0

\* the steps of the exports in flight
ExportNext ==
  \/ \E i \in DOMAIN exports, outcome \in {"ok", "not ok", "error"} : ExportFetched(i, outcome)
  \/ \E i \in DOMAIN exports : ExportArrayBuffer(i)
  \/ \E i \in DOMAIN exports : ExportLoaded(i)
  \/ \E i \in DOMAIN exports : ExportCreated(i)
  \/ \E i \in DOMAIN exports : ExportCopied(i)
  \/ \E i \in DOMAIN exports : ExportFontEmbedded(i)
  \/ \E i \in DOMAIN exports : ExportSaved(i)
  \/ \E i \in DOMAIN exports, outcome \in {"ok", "error", "throw"} : ExportUploaded(i, outcome)
  \/ \E i \in DOMAIN exports, ok \in BOOLEAN : ExportInserted(i, ok)

\* the dialog's buttons
ModalNext ==
  \/ ModalCancel
  \/ ModalDelete
  \/ ModalSave

\* the steps of the drops in flight
DropNext ==
  \/ \E d \in drops, ok \in BOOLEAN : DropUploaded(d, ok)
  \/ \E d \in drops, ok \in BOOLEAN : DropInserted(d, ok)

\* the whole editor, on few pointer positions and texts
Next ==
  \/ (uuid < MaxUuid \/ ~ContainerMounted)
       /\ \E rect \in ExportRects, e \in ExportClicks : onPdfClick(rect, e)
  \/ \E text \in ExportTexts : ModalChangeText(text)
  \/ ModalNext
  \/ uuid < MaxUuid /\ \E file \in Files : DropStart(file)
  \/ DropNext
  \/ Len(exports) < MaxExports /\ \E alsoUpload \in BOOLEAN : ExportStart(alsoUpload)
  \/ ExportNext

Spec == Init /\ [][Next]_vars

\* the editor without exports, on many pointer positions and texts
NextEdit ==
  \/ (uuid < MaxEditUuid \/ ~ContainerMounted)
       /\ \E rect \in Rects, e \in Clicks : onPdfClick(rect, e)
  \/ \E text \in Texts : ModalChangeText(text)
  \/ ModalNext
  \/ uuid < MaxEditUuid /\ \E file \in Files : DropStart(file)
  \/ DropNext

SpecEdit == Init /\ [][NextEdit]_vars

\* the steps of the saveTemplate and loadTemplate calls in flight
TemplateNext ==
  \/ \E i \in DOMAIN calls, ok \in BOOLEAN : SaveDone(i, ok)
  \/ \E i \in DOMAIN calls, ok \in BOOLEAN : LoadDone(i, ok)

\* the editor with template save and load, without exports
NextTemplate ==
  \/ (uuid < MaxTemplateUuid \/ ~ContainerMounted)
       /\ \E rect \in ExportRects, e \in ExportClicks : onPdfClick(rect, e)
  \/ \E text \in ExportTexts : ModalChangeText(text)
  \/ ModalNext
  \/ uuid < MaxTemplateUuid /\ \E file \in Files : DropStart(file)
  \/ DropNext
  \/ Len(calls) < MaxCalls /\ SaveStart
  \/ Len(calls) < MaxCalls /\ \E id \in 1..MaxTemplateId : Mount(id)
  \/ TemplateNext

SpecTemplate == Init /\ [][NextTemplate]_vars

\* the PdfEditor component
NextPdfEditor ==
  \/ PdfRendered
  \/ \E text \in NewTexts : setNewText(text)
  \/ Len(textAnnotations) < MaxPdfAnnotations /\ addTextAnnotation
  \/ Len(readers) + Len(imageAnnotations) < MaxPdfAnnotations
       /\ \E file \in Images : addImageAnnotation(file)
  \/ \E k \in DOMAIN readers : ReaderLoaded(k)
  \/ \E k \in DOMAIN textAnnotations : RemoveText(textAnnotations[k].id)
  \/ now < MaxNow /\ Tick

SpecPdfEditor == Init /\ [][NextPdfEditor]_vars

\* the annotation dialog with the font size controls of
\* Editor/TimeTrackerEditor.tsx, opened by a click on the page
NextDialog ==
  \/ (uuid < MaxDialogUuid \/ ~ContainerMounted)
       /\ \E rect \in ExportRects, e \in ExportClicks : onPdfClick(rect, e)
  \/ \E chars \in NumberValues : ModalChangeFontSizeNumber(chars)
  \/ \E chars \in OptionValues : ModalChangeFontSizeSelect(chars)
  \/ ModalNext
  \/ uuid < MaxDialogUuid /\ \E file \in Files : DropStart(file)
  \/ DropNext

SpecDialog == Init /\ [][NextDialog]_vars

\* one export of a PDF that carries up to two annotations
NextOrder ==
  \/ (uuid < MaxOrderUuid \/ ~ContainerMounted)
       /\ \E rect \in ExportRects, e \in ExportClicks : onPdfClick(rect, e)
  \/ \E text \in ExportTexts : ModalChangeText(text)
  \/ ModalNext
  \/ uuid < MaxOrderUuid /\ DropStart("two.pdf")
  \/ DropNext
  \/ Len(exports) < MaxOrderExports /\ \E alsoUpload \in BOOLEAN : ExportStart(alsoUpload)
  \/ ExportNext

SpecOrder == Init /\ [][NextOrder]_vars

\* the two drop zones, with template save and load
NextUpload ==
  \/ uuid < MaxUploadUuid /\ \E file \in Files : DropStart(file)
  \/ uuid < MaxUploadUuid /\ \E file \in HeaderImages : HeaderDropStart(file)
  \/ DropNext
  \/ Len(calls) < MaxUploadCalls /\ SaveStart
  \/ Len(calls) < MaxUploadCalls /\ \E id \in 1..MaxTemplateId : Mount(id)
  \/ TemplateNext

SpecUpload == Init /\ [][NextUpload]_vars

(***************************************************************************)
(* Properties.                                                             *)
(***************************************************************************)
\* the annotation the latest click created, while it is in the list
ClickedAnnotations ==
  IF lastClick = Null THEN {}
  ELSE {annotations[k] : k \in {j \in DOMAIN annotations : annotations[j].id = lastClick.id}}

\* the latest click lay inside the container's bounding box
ClickInside ==
  /\ lastClick /= Null
  /\ lastClick.e.clientX >= lastClick.rect.left
  /\ lastClick.e.clientX <= lastClick.rect.left + lastClick.rect.width
  /\ lastClick.e.clientY >= lastClick.rect.top
  /\ lastClick.e.clientY <= lastClick.rect.top + lastClick.rect.height

\* C1: every annotation in the list has xPct and yPct in [0, 1] and pageIndex in
\* 0 .. P-1, P being the page count the mapper uses, whatever clicks (also
\* outside the container), edits and deletes came before.
C1_FractionsClamped ==
  \A k \in DOMAIN annotations :
    LET a == annotations[k] IN
      /\ a.xPct[2] > 0 /\ 0 <= a.xPct[1] /\ a.xPct[1] <= a.xPct[2]
      /\ a.yPct[2] > 0 /\ 0 <= a.yPct[1] /\ a.yPct[1] <= a.yPct[2]
      /\ a.pageIndex >= 0 /\ a.pageIndex <= PageCount(pdfNumPages) - 1

\* a click left of and below the container made an annotation that a dialog
\* Save has since written back to the list
C1_Witness ==
  /\ lastClick /= Null
  /\ lastClick.e.clientX < lastClick.rect.left
  /\ lastClick.e.clientY > lastClick.rect.top + lastClick.rect.height
  /\ \E a \in ClickedAnnotations : a.text = "Draft" /\ a.xPct = <<0, 1>> /\ a.yPct = <<1, 1>>

\* C2: a click inside a container of size (W, H) showing a document of P pages,
\* mapped by onPdfClick and projected back with left = xPct * W and
\* top = pageIndex * (H / P) + yPct * (H / P), gives the clicked pixel again.
C2_RoundTrip ==
  (ClickInside /\ lastClick.docPages >= 1) =>
    \A a \in ClickedAnnotations :
      LET W == lastClick.rect.width
          H == lastClick.rect.height
          P == lastClick.docPages
          px == lastClick.e.clientX - lastClick.rect.left
          py == lastClick.e.clientY - lastClick.rect.top
      IN \* left = px
         /\ a.xPct[1] * W = px * a.xPct[2]
         \* top = (pageIndex + yPct) * H / P = py
         /\ (a.pageIndex * a.yPct[2] + a.yPct[1]) * H = py * P * a.yPct[2]

\* C3: for a document of P pages in a container of height H the click gets
\* pageIndex = clamp(floor(offsetY / (H / P)), 0, P - 1) and
\* yPct = clamp((offsetY - pageIndex * H / P) / (H / P), 0, 1); a click at
\* (400, 900) on a 2-page document in an 800x1200 container gets pageIndex 1,
\* yPct 0.5 and xPct 0.5.
C3_PageOfDocument ==
  (lastClick /= Null /\ lastClick.docPages >= 1) =>
    \A a \in ClickedAnnotations :
      LET H == lastClick.rect.height
          P == lastClick.docPages
          offsetY == lastClick.e.clientY - lastClick.rect.top
          offsetX == lastClick.e.clientX - lastClick.rect.left
          floored == (offsetY * P) \div H
          pageIndex == IF floored < 0 THEN 0 ELSE IF floored > P - 1 THEN P - 1 ELSE floored
          \* (offsetY - pageIndex * H / P) / (H / P)
          yNum == offsetY * P - pageIndex * H
      IN /\ a.pageIndex = pageIndex
         /\ IF yNum < 0 THEN a.yPct = <<0, 1>>
            ELSE IF yNum > H THEN a.yPct = <<1, 1>>
            ELSE a.yPct[1] * H = yNum * a.yPct[2]
         /\ (P = 2 /\ lastClick.rect.width = 800 /\ H = 1200 /\ offsetX = 400 /\ offsetY = 900)
              => (a.pageIndex = 1 /\ a.yPct = <<1, 2>> /\ a.xPct = <<1, 2>>)

\* the exports whose annotations.forEach loop has run to its end
Drawn(x) == x.pc \in {"save", "upload", "insert"} \/ x.download /= Null

\* the annotation of the export's list that a draw call was made for
AnnotationOf(x, op) == CHOOSE a \in {x.annotations[k] : k \in DOMAIN x.annotations} : a.id = op.annotation

\* C4: export draws each annotation's text at x = xPct * pageWidth and
\* y = (1 - yPct) * pageHeight of the page its pageIndex selects; on a 612x792
\* page an annotation at xPct 0.5, yPct 0.1 is drawn at x = 306, y = 712.8.
C4_TextPosition ==
  \A i \in DOMAIN exports :
    Drawn(exports[i]) =>
      \A k \in DOMAIN exports[i].out.draws :
        LET op == exports[i].out.draws[k]
            a == AnnotationOf(exports[i], op)
            size == exports[i].out.pages[a.pageIndex + 1]
        IN op.op = "drawText" =>
             /\ op.page = a.pageIndex
             /\ op.x[1] * a.xPct[2] = a.xPct[1] * size[1] * op.x[2]
             /\ op.y[1] * a.yPct[2] = (a.yPct[2] - a.yPct[1]) * size[2] * op.y[2]
             /\ (size = <<612, 792>> /\ a.xPct = <<1, 2>> /\ a.yPct = <<1, 10>>)
                  => (op.x = <<306, 1>> /\ op.y = <<3564, 5>>)

\* a downloaded export drew the text of an annotation at (0.5, 0.1) on a
\* 612x792 page
C4_Witness ==
  \E i \in DOMAIN exports :
    /\ exports[i].download /= Null
    /\ \E k \in DOMAIN exports[i].download.draws :
         LET op == exports[i].download.draws[k]
             a == AnnotationOf(exports[i], op)
         IN /\ op.op = "drawText"
            /\ exports[i].download.pages[a.pageIndex + 1] = <<612, 792>>
            /\ a.xPct = <<1, 2>> /\ a.yPct = <<1, 10>>
            /\ op.x = <<306, 1>> /\ op.y = <<3564, 5>>

\* the exports that have started and not finished
InFlight == {i \in DOMAIN exports : exports[i].pc \notin {"done", "rejected"}}

\* C5: at most one export is in flight at any time; a request made while one
\* is in flight starts no second fetch.
C5_OneExportInFlight == Cardinality(InFlight) <= 1

\* the draw calls are those of the annotation list, in its order: for each
\* annotation the rectangle and then the text, with its text, size and position
DrawsOf(draws, annots, pages) ==
  /\ Len(draws) = 2 * Len(annots)
  /\ \A k \in DOMAIN annots :
       LET a == annots[k]
           rect == draws[2 * k - 1]
           text == draws[2 * k]
           size == pages[a.pageIndex + 1]
       IN /\ rect.op = "drawRectangle" /\ text.op = "drawText"
          /\ rect.annotation = a.id /\ text.annotation = a.id
          /\ rect.page = a.pageIndex /\ text.page = a.pageIndex
          /\ rect.widthOfText.text = a.text /\ text.text = a.text
          /\ rect.widthOfText.size = a.fontSize /\ text.size = a.fontSize
          /\ text.x[1] * a.xPct[2] = a.xPct[1] * size[1] * text.x[2]
          /\ text.y[1] * a.yPct[2] = (a.yPct[2] - a.yPct[1]) * size[2] * text.y[2]

\* C6: what an export draws is the annotation list as it was when the export
\* was requested, whatever clicks, edits and deletes ran between its awaits.
C6_DrawsRequestedList ==
  \A i \in DOMAIN exports :
    Drawn(exports[i]) =>
      DrawsOf(exports[i].out.draws, exports[i].annotations, exports[i].out.pages)

\* a downloaded export whose loop ran when the list had already changed
C6_Witness ==
  \E i \in DOMAIN exports :
    /\ exports[i].download /= Null
    /\ exports[i].annotations /= << >>
    /\ exports[i].listAtDraw.list /= exports[i].annotations
    /\ exports[i].download.draws /= << >>

\* the export got the source's pages and its list has exactly one annotation
\* whose pageIndex is no page of the document
OneBadPageIndex(x) ==
  /\ x.bytes /= ""
  /\ ParsesAsPdf(x.bytes)
  /\ Cardinality({k \in DOMAIN x.annotations :
                    x.annotations[k].pageIndex >= Len(FilePages(x.bytes))}) = 1
  /\ \A k \in DOMAIN x.annotations : WinAnsiEncodable(x.annotations[k].text)

\* C7: an export of a list with exactly one annotation whose pageIndex is not
\* below the page count does not abort: it ends with an output delivered and
\* without the failure message.
C7_BadPageIndexSkipped ==
  \A i \in DOMAIN exports :
    (exports[i].pc = "done" /\ OneBadPageIndex(exports[i])) =>
      /\ exports[i].download /= Null
      /\ exports[i].alert \notin {"Failed to export PDF: index out of range"}

\* the fetch of the source failed, or the bytes fetched are no PDF
FetchOrParseFailed(x) ==
  /\ x.pc = "done"
  /\ x.bytes = "" \/ ~ParsesAsPdf(x.bytes)

ExportFailureAlerts ==
  {"Failed to export PDF: Failed to fetch PDF", "Failed to export PDF: Failed to fetch",
   "Failed to export PDF: Failed to parse PDF document"}

\* C8: when the source cannot be fetched or does not parse as a PDF the export
\* ends with the failure message, no download and no upload.
C8_FatalErrorNoOutput ==
  \A i \in DOMAIN exports :
    FetchOrParseFailed(exports[i]) =>
      /\ exports[i].alert \in ExportFailureAlerts
      /\ exports[i].download = Null
      /\ exports[i].mergedBytes = Null
      /\ exports[i].uploadPath = Null
      /\ \A o \in storage : o.file = "edited.pdf" =>
           \E j \in DOMAIN exports : j /= i /\ exports[j].uploadPath = o.path

\* one export failed on the fetch, another on bytes that are no PDF
C8_Witness ==
  \E i, j \in DOMAIN exports :
    /\ FetchOrParseFailed(exports[i]) /\ exports[i].bytes = ""
    /\ FetchOrParseFailed(exports[j]) /\ exports[j].bytes = "notes.docx"

C10_DownloadBeforeUpload ==
  /\ \A i \in DOMAIN exports :
       LET x == exports[i] IN
         /\ x.mergedBytes /= Null => x.download = x.mergedBytes
         /\ (x.pc \in {"upload", "insert"} \/ x.uploadPath /= Null) =>
              (x.alsoUpload /\ x.download /= Null)
  /\ \A o \in storage : o.file = "edited.pdf" =>
       \E i \in DOMAIN exports :
         exports[i].uploadPath = o.path /\ exports[i].alsoUpload /\ exports[i].download /= Null

\* one export downloaded and uploaded, another only downloaded
C10_Witness ==
  \E i, j \in DOMAIN exports :
    /\ exports[i].alsoUpload /\ exports[i].download /= Null
    /\ [path |-> exports[i].uploadPath, file |-> "edited.pdf"] \in storage
    /\ ~exports[j].alsoUpload /\ exports[j].pc = "done" /\ exports[j].download /= Null
    /\ exports[j].uploadPath = Null

\* the object stored at a path, when there is one
ObjectsAt(path) == {o \in storage : o.path = path}

\* C11: no export writes to the storage path of the original attachment: the
\* edited file is stored under its own fresh path, every dropped file keeps
\* the bytes it was uploaded with, and no step of an export changes
\* template.attachment.
C11_OriginalNotOverwritten ==
  /\ [](/\ \A i \in DOMAIN exports :
             exports[i].uploadPath /= Null =>
               /\ exports[i].uploadPath /= exports[i].url.path
               /\ exports[i].uploadPath /= template.attachment.storagePath
               /\ \A o \in ObjectsAt(exports[i].uploadPath) : o.file = "edited.pdf"
        /\ \A o \in storage : o.path.name /= "edited.pdf" => o.file = o.path.name
        /\ \A i \in DOMAIN exports :
             exports[i].url /= Null =>
               Fetch(exports[i].url) = exports[i].url.path.name)
  /\ [][exports' /= exports => template' = template]_vars

\* an export has uploaded the edited file and recorded it, and the attachment
\* it was made from is still the template's and still serves the dropped bytes
C11_Witness ==
  \E i \in DOMAIN exports :
    /\ exports[i].pc = "done"
    /\ ObjectsAt(exports[i].uploadPath) /= {}
    /\ exports[i].uploadPath \in file_bank
    /\ template.attachment.storagePath = exports[i].url.path
    /\ Fetch(template.attachment.url) = "two.pdf"

\* the export downloaded its output and asked for the upload, and the upload
\* or the metadata insert did not go through
UploadStepFailed(x) ==
  /\ x.pc = "done"
  /\ x.download /= Null
  /\ x.uploadPath /= Null
  /\ ObjectsAt(x.uploadPath) = {} \/ x.uploadPath \notin file_bank

\* C12: when the upload or the metadata insert of an export fails after the
\* download, the user is told that the file was exported but not saved: not
\* that the export failed, and not that the upload succeeded.
C12_PersistenceFailureReported ==
  \A i \in DOMAIN exports :
    UploadStepFailed(exports[i]) =>
      exports[i].alert = "Edited PDF downloaded but failed to upload edited file."

\* next is prev with the entry of updated's id replaced by updated
ReplacedInPlace(prev, updated, next) ==
  /\ Len(next) = Len(prev)
  /\ \A k \in DOMAIN prev :
       /\ next[k].id = prev[k].id
       /\ prev[k].id = updated.id => next[k] = updated
       /\ prev[k].id /= updated.id => next[k] = prev[k]

\* C13: the step of saveAnnotationEdit(updated) leaves a list of the same
\* length and the same ids in the same order, with updated at the place of its
\* id and every other annotation as it was.
C13_ReplacedInPlace ==
  [][(editingAnnotation /= Null /\ editingAnnotation' = Null) =>
       ReplacedInPlace(annotations, editingAnnotation, annotations')]_vars

\* a Save has written a typed text to the second of two annotations and left
\* the first with its default text
C13_Witness ==
  /\ ~showAnnotModal
  /\ editingAnnotation = Null
  /\ Len(annotations) = 2
  /\ annotations[1].text = "Edit me"
  /\ annotations[2].text = "Draft"

\* next is prev without its one entry of the id
RemovedById(prev, id, next) ==
  /\ \A k \in DOMAIN next : next[k].id /= id
  /\ \E j \in DOMAIN prev :
       /\ prev[j].id = id
       /\ next = SubSeq(prev, 1, j - 1) \o SubSeq(prev, j + 1, Len(prev))

\* the step is the Delete button's removeAnnotation taking an annotation out
RemoveStep ==
  /\ showAnnotModal /\ showAnnotModal'
  /\ editingAnnotation /= Null /\ editingAnnotation' = editingAnnotation
  /\ annotations' /= annotations
  /\ drops' = drops /\ uuid' = uuid /\ calls' = calls

\* C14: the step of removeAnnotation(id) leaves no annotation of that id and
\* keeps every other annotation, unchanged and in the order they had.
C14_RemovedById ==
  [][RemoveStep => RemovedById(annotations, editingAnnotation.id, annotations')]_vars

\* the dialog's annotation has been deleted and an earlier one is still there
C14_Witness ==
  /\ showAnnotModal
  /\ editingAnnotation /= Null
  /\ Len(annotations) = 1
  /\ annotations[1].id < editingAnnotation.id
  /\ lastClick /= Null /\ lastClick.id = editingAnnotation.id

IdsDistinct(list) ==
  \A j, k \in DOMAIN list : j /= k => list[j].id /= list[k].id

\* C16: in every reachable state the ids in an annotation list are pairwise
\* distinct: in the time-tracker editor's list and in the PdfEditor's text
\* and image lists.
C16_IdsDistinct ==
  /\ IdsDistinct(annotations)
  /\ IdsDistinct(textAnnotations)
  /\ IdsDistinct(imageAnnotations)

\* C17: a loadTemplate that reads the row a successful saveTemplate wrote
\* leaves the editor with the annotation list that save was made with.
C17_SaveLoadRoundTrip ==
  \A i, j \in DOMAIN calls :
    LET s == calls[i]
        l == calls[j]
    IN (/\ s.kind = "save" /\ s.pc = "done" /\ s.row /= 0
        /\ l.kind = "load" /\ l.pc = "done" /\ l.listAfter /= Null
        /\ l.id = s.row /\ l.payload = s.payload)
         => l.listAfter.list = s.list

\* the step changes the annotation list or the dialog, and is no step of a
\* drop, a save or a load
AnnotationStep ==
  /\ \/ annotations' /= annotations
     \/ editingAnnotation' /= editingAnnotation
     \/ showAnnotModal' /= showAnnotModal
  /\ drops' = drops
  /\ calls' = calls

\* C18: clicks, dialog saves and deletes write nothing to storage, to the
\* file_bank table or to the templates table, and the templates table changes
\* only in the step that completes a saveTemplate call.
C18_EditsNotPersisted ==
  [][/\ AnnotationStep =>
          (storage' = storage /\ file_bank' = file_bank /\ templates' = templates)
     /\ templates' /= templates =>
          \E i \in DOMAIN calls :
            /\ calls[i].kind = "save" /\ calls[i].pc = "await"
            /\ calls'[i].pc = "done"]_vars

\* a template was saved, and the annotation list has been edited since
\* without the saved row changing
C18_Witness ==
  \E i \in DOMAIN calls :
    /\ calls[i].kind = "save" /\ calls[i].pc = "done" /\ calls[i].row /= 0
    /\ templates[calls[i].row] = calls[i].payload
    /\ calls[i].list /= << >>
    /\ annotations /= calls[i].list
    /\ \E k \in DOMAIN annotations : annotations[k].text = "Draft"

\* C19: a call of onPdfClick while no document is loaded or the container is
\* not mounted changes neither the annotation list nor the annotation being
\* edited nor the visibility of the dialog.
C19_ClickWithoutDocument ==
  [][(lastClick' /= lastClick /\ (template.attachment = Null \/ ~ContainerMounted)) =>
       (/\ annotations' = annotations
        /\ editingAnnotation' = editingAnnotation
        /\ showAnnotModal' = showAnnotModal)]_vars

\* onPdfClick returned at once while a Word attachment had replaced the PDF
\* and the dialog of an earlier click was still open
C19_Witness ==
  /\ lastClick /= Null
  /\ lastClick.id = 0
  /\ template.attachment /= Null
  /\ template.attachment.type = "word"
  /\ showAnnotModal
  /\ editingAnnotation /= Null

\* C20: a click on a loaded document appends one annotation with the text
\* "Edit me" and fontSize 12 and a fresh id to the end of the list, and in the
\* same step shows the dialog with that annotation as the one being edited.
C20_ClickCreatesAndOpens ==
  [][(lastClick' /= lastClick /\ ContainerMounted) =>
       (/\ Len(annotations') = Len(annotations) + 1
        /\ SubSeq(annotations', 1, Len(annotations)) = annotations
        /\ LET new == annotations'[Len(annotations')]
           IN /\ new.text = "Edit me"
              /\ new.fontSize = 12
              /\ \A k \in DOMAIN annotations : annotations[k].id /= new.id
              /\ editingAnnotation' = new
        /\ showAnnotModal')]_vars

\* a second click has just added its annotation behind an edited one and
\* opened the dialog on it
C20_Witness ==
  /\ showAnnotModal
  /\ Len(annotations) = 2
  /\ annotations[1].text = "Draft"
  /\ editingAnnotation = annotations[2]
  /\ annotations[2].text = "Edit me"
  /\ lastClick /= Null /\ lastClick.id = annotations[2].id

\* C21: every annotation in a list has a non-empty text, whatever clicks,
\* dialog text changes, saves and deletes came before.
C21_TextNonEmpty == \A k \in DOMAIN annotations : annotations[k].text /= ""

\* the export got the source's pages, every annotation of its list is on a
\* page of the document, and drawing one of them fails
OneDrawFails(x) ==
  /\ x.bytes /= ""
  /\ ParsesAsPdf(x.bytes)
  /\ \A k \in DOMAIN x.annotations : x.annotations[k].pageIndex < Len(FilePages(x.bytes))
  /\ \E k \in DOMAIN x.annotations : ~WinAnsiEncodable(x.annotations[k].text)

\* C23: an export in which drawing one annotation fails still ends with an
\* output delivered, with the annotations that can be drawn on it, and
\* without the failure message.
C23_DrawFailureSkipped ==
  \A i \in DOMAIN exports :
    (exports[i].pc = "done" /\ OneDrawFails(exports[i])) =>
      /\ exports[i].download /= Null
      /\ exports[i].alert /= "Failed to export PDF: WinAnsi cannot encode"

\* C25: while an export is in flight the busy flag is set, whatever other
\* operation that shares the flag starts or finishes in between.
C25_BusyWhileInFlight == InFlight /= {} => loading

\* the step in which export i ends
ExportEnds(i) ==
  /\ i \in DOMAIN exports
  /\ exports[i].pc \notin {"done", "rejected"}
  /\ exports'[i].pc = "done"

\* the step of an export request that is turned away with "No PDF loaded"
ExportTurnedAway ==
  /\ Len(exports') = Len(exports) + 1
  /\ exports'[Len(exports')].pc = "rejected"

\* C26: the step in which a started export ends, on whichever path, leaves
\* the busy flag cleared; an export request with no PDF loaded leaves the flag
\* as it was.
C26_ExportClearsFlag ==
  [][/\ \A i \in DOMAIN exports : ExportEnds(i) => ~loading'
     /\ ExportTurnedAway => loading' = loading]_vars

\* one export has ended on an exception while drawing, another on a failed
\* upload, and the flag is clear
C26_Witness ==
  /\ ~loading
  /\ \E i, j \in DOMAIN exports :
       /\ exports[i].pc = "done"
       /\ exports[i].alert = "Failed to export PDF: WinAnsi cannot encode"
       /\ exports[j].pc = "done"
       /\ exports[j].alert = "Edited PDF downloaded but failed to upload edited file."

\* the drops of a file on the attachment zone that end in this step
DropsEnding == {d \in drops \ drops' : d.target = "attachment"}

\* C27: the step that ends a successful onDropFile leaves template.attachment
\* on the new file and the annotation list empty; the step that ends a failed
\* one leaves template.attachment and the annotation list as they were.
C27_AttachmentResetsAnnotations ==
  [][\A d \in DropsEnding :
       IF d.storagePath \in file_bank'
       THEN /\ template'.attachment /= Null
            /\ template'.attachment.storagePath = d.storagePath
            /\ annotations' = << >>
       ELSE /\ template'.attachment = template.attachment
            /\ annotations' = annotations]_vars

\* an attachment replaced by a second drop after an annotation had been put
\* on the first: the dialog still holds that annotation, the list is empty
C27_Witness ==
  /\ template.attachment /= Null
  /\ template.attachment.storagePath.uuid > 1
  /\ template.attachment.storagePath \in file_bank
  /\ editingAnnotation /= Null
  /\ editingAnnotation.id < template.attachment.storagePath.uuid
  /\ annotations = << >>
  /\ drops = {}

\* the ids of the annotations of a list
IdsOf(list) == {list[k].id : k \in DOMAIN list}

\* C28: an annotation id that has been handed out and is not in the list is
\* not in the list after any step: neither Save in a dialog that still holds
\* the deleted annotation nor any other action puts it back.
C28_DeletedStaysDeleted ==
  [][\A n \in 1..uuid : n \notin IdsOf(annotations) => n \notin IdsOf(annotations')]_vars

\* the annotation of the last click was deleted in its dialog while an older
\* one stayed, and Save was then pressed in that dialog
C28_Witness ==
  /\ lastClick /= Null
  /\ lastClick.id /= 0
  /\ lastClick.id \notin IdsOf(annotations)
  /\ annotations /= << >>
  /\ editingAnnotation = Null
  /\ ~showAnnotModal

\* the dialog is closed without Save
CancelStep ==
  /\ showAnnotModal /\ ~showAnnotModal'
  /\ editingAnnotation /= Null
  /\ editingAnnotation' = editingAnnotation

\* the text of the dialog's edit target changes
TypingStep ==
  /\ editingAnnotation /= Null
  /\ editingAnnotation' /= Null
  /\ editingAnnotation'.id = editingAnnotation.id
  /\ editingAnnotation'.text /= editingAnnotation.text

\* Save is pressed in the dialog
SaveStep == editingAnnotation /= Null /\ editingAnnotation' = Null

\* C29: typing in the dialog and closing it without Save leave the annotation
\* list as it is, and the text of a listed annotation changes only in a Save
\* step, to the text the dialog held.
C29_ListChangesOnlyOnSave ==
  [][/\ (CancelStep \/ TypingStep) => annotations' = annotations
     /\ \A k \in DOMAIN annotations :
          (/\ k \in DOMAIN annotations'
           /\ annotations'[k].id = annotations[k].id
           /\ annotations'[k].text /= annotations[k].text)
            => (SaveStep /\ annotations'[k].text = editingAnnotation.text)]_vars

\* a dialog cancelled after typing: the edit target holds the typed text, the
\* listed annotation still has the default text
C29_Witness ==
  /\ ~showAnnotModal
  /\ editingAnnotation /= Null
  /\ editingAnnotation.text = "Draft"
  /\ \E k \in DOMAIN annotations :
       /\ annotations[k].id = editingAnnotation.id
       /\ annotations[k].text = "Edit me"

\* C22: whatever font size changes were made in the dialog through the number
\* field and the size select, the fontSize of the dialog's edit target and,
\* after Save, of every listed annotation is an integer from 6 to 96.
C22_FontSizeInRange ==
  /\ editingAnnotation /= Null => editingAnnotation.fontSize \in 6..96
  /\ \A k \in DOMAIN annotations : annotations[k].fontSize \in 6..96

\* one annotation saved with the size the number field makes of an entry
\* above its range, another with the largest size of the select
C22_Witness ==
  /\ editingAnnotation = Null
  /\ \E j, k \in DOMAIN annotations :
       /\ annotations[j].fontSize = 96
       /\ annotations[k].fontSize = 72

\* the place of the annotation with this id in a list
PlaceOf(list, id) == CHOOSE k \in DOMAIN list : list[k].id = id

\* C24: the annotation list is in insertion order, edited or not; an export
\* draws the annotations in the order of its list, and for each annotation
\* the rectangle before the text, so that the later of two annotations is
\* drawn after everything of the earlier one.
C24_DrawOrder ==
  /\ \A j, k \in DOMAIN annotations : j < k => annotations[j].id < annotations[k].id
  /\ \A i \in DOMAIN exports :
       Drawn(exports[i]) =>
         LET draws == exports[i].out.draws
             list == exports[i].annotations
         IN /\ \A k \in DOMAIN list :
                 \E p \in DOMAIN draws : draws[p].annotation = list[k].id
            /\ \A p, q \in DOMAIN draws :
                 /\ (/\ draws[p].annotation = draws[q].annotation
                     /\ draws[p].op = "drawRectangle"
                     /\ draws[q].op = "drawText") => p < q
                 /\ PlaceOf(list, draws[p].annotation) < PlaceOf(list, draws[q].annotation)
                      => p < q

\* a downloaded export of two annotations at the same place of the same page,
\* the later of them edited while the list held both
C24_Witness ==
  \E i \in DOMAIN exports :
    /\ exports[i].download /= Null
    /\ Len(exports[i].download.draws) = 4
    /\ Len(exports[i].annotations) = 2
    /\ exports[i].annotations[1].text = "Edit me"
    /\ exports[i].annotations[2].text = "Draft"
    /\ exports[i].annotations[1].xPct = exports[i].annotations[2].xPct
    /\ exports[i].annotations[1].yPct = exports[i].annotations[2].yPct
    /\ exports[i].annotations[1].pageIndex = exports[i].annotations[2].pageIndex

\* the storage holds an object at the path and file_bank a record of it
UploadedAndRecorded(path) == ObjectsAt(path) /= {} /\ path \in file_bank

\* C30: template.attachment and template.headerImage, in the editor and in
\* every saved row, name a storage path whose upload and whose file_bank
\* insert both succeeded, and every file_bank record names a path whose
\* upload succeeded.
C30_SetOnlyAfterUploadAndInsert ==
  /\ template.attachment /= Null => UploadedAndRecorded(template.attachment.storagePath)
  /\ template.headerImage /= Null => UploadedAndRecorded(template.headerImage.storagePath)
  /\ \A k \in DOMAIN templates :
       LET t == templates[k].template_data
       IN /\ t.attachment /= Null => UploadedAndRecorded(t.attachment.storagePath)
          /\ t.headerImage /= Null => UploadedAndRecorded(t.headerImage.storagePath)
  /\ \A path \in file_bank : ObjectsAt(path) /= {}

\* an attachment and a header image are set, and a third drop ended after
\* its upload without a file_bank record
C30_Witness ==
  /\ template.attachment /= Null
  /\ template.headerImage /= Null
  /\ drops = {}
  /\ \E o \in storage : o.path \notin file_bank

====
